---- MODULE Spec2Model ----
(***************************************************************************)
(* Model of the binary resolver of the LX extension (src/src/lib.rs):      *)
(* LxExtension::language_server_command, language_server_binary_path and   *)
(* the helpers they call.                                                  *)
(*                                                                         *)
(* Text is a sequence of pieces.  Data that comes from the environment     *)
(* (captured stdout/stderr bytes, the value of HOME, a spawn error) is a   *)
(* sequence of one-character pieces; a string literal of the source is     *)
(* kept as one piece.  Option<T> is a sequence of length 0 (None) or 1     *)
(* (Some).                                                                 *)
(***************************************************************************)
EXTENDS Integers, Sequences, FiniteSets, TLC

VARIABLES
    cached_binary_path, \* LxExtension.cached_binary_path : Option<String>
    pc,                 \* position of the current call in the code
    result,             \* Option<Result<String>>: what the current call returned
    emitted,            \* statuses the current call has sent to the status sink
    spawned,            \* subprocesses the current call has spawned, in order
    io,                 \* what each external call of the current call returned
    calls,              \* number of resolve() calls started on this instance
    installs,           \* `go install` spawns over the lifetime of the instance
    first_ok,           \* history: path of the first earlier call that returned Ok
    entry_cache,        \* history: cached_binary_path when the current call started
    prev_err,           \* history: TRUE iff the previous call returned Err
    queries,            \* environment and filesystem queries of the current call, in order
    command             \* Option<Result<zed::Command>>: what language_server_command returned

vars == <<cached_binary_path, pc, result, emitted, spawned, io, calls, installs, first_ok, entry_cache, prev_err, queries, command>>

----------------------------------------------------------------------------
(* Bounds *)

MaxCalls == 2     \* resolve() calls per behaviour
MaxOut == 3       \* bytes of stdout captured from the PATH lookup
MaxErr == 1       \* bytes of stderr captured from `go install`

----------------------------------------------------------------------------
(* Option and Result *)

None == <<>>
Some(x) == <<x>>

Ok(v) == [ok |-> TRUE, val |-> v]
Err(m) == [ok |-> FALSE, val |-> m]

----------------------------------------------------------------------------
(* Text *)

SeqsUpTo(S, n) == UNION {[1..k -> S] : k \in 0..n}

Last(s) == s[Len(s)]

\* Bytes a subprocess can write; "xFF" is a byte that is not valid UTF-8.
\* "\r" stands for the whitespace that can occur inside a line as well.
OutBytes == {"a", "\n", "\r", "xFF"}
ErrBytes == {"e", "xFF"}

IsWhitespace(c) == c \in {" ", "\n", "\r", "\t"}

\* String::from_utf8_lossy: invalid bytes become U+FFFD.
from_utf8_lossy(bytes) ==
    [i \in 1..Len(bytes) |-> IF bytes[i] = "xFF" THEN "uFFFD" ELSE bytes[i]]

RECURSIVE trim_start(_)
trim_start(s) ==
    IF s # <<>> /\ IsWhitespace(Head(s)) THEN trim_start(Tail(s)) ELSE s

RECURSIVE trim_end(_)
trim_end(s) ==
    IF s # <<>> /\ IsWhitespace(Last(s)) THEN trim_end(SubSeq(s, 1, Len(s) - 1)) ELSE s

\* str::trim
trim(s) == trim_end(trim_start(s))

first_line_whole(s) == s

\* .lines().next().unwrap_or(""): the text before the first "\n", without
\* the "\r" of a "\r\n" terminator; "" when the string is empty.

first_line(s) ==
    IF \E i \in 1..Len(s) : s[i] = "\n"
    THEN LET n == CHOOSE i \in 1..Len(s) : s[i] = "\n" /\ \A j \in 1..(i - 1) : s[j] # "\n"
             line == SubSeq(s, 1, n - 1)
         IN  IF line # <<>> /\ Last(line) = "\r"
             THEN SubSeq(line, 1, Len(line) - 1)
             ELSE line
    ELSE s

\* String::from_utf8_lossy(&output.stdout).trim().lines().next().unwrap_or("")
which_path(stdout) == first_line(trim(from_utf8_lossy(stdout)))

get_binary_name == <<"lx-lsp">>

go_bin_path_NoDir(home) == home \o get_binary_name

\* format!("{}/go/bin/{}", home, self.get_binary_name())
go_bin_path(home) == home \o <<"/go/bin/">> \o get_binary_name

\* format!("{:?}", e) of a String
debug_fmt(e) == <<"\"">> \o e \o <<"\"">>

TOOLCHAIN_MISSING_MSG ==
    <<"Go toolchain not found. Please install Go to use LX extension.\n\nInstall Go from https://go.dev/doc/install\n\nThe extension will provide syntax highlighting only.">>

NOT_LOCATED_MSG == <<"Failed to locate installed language server binary">>

install_failed_msg_Generic(stderr) == <<"Failed to install lx-lsp.">>

install_failed_msg(stderr) ==
    <<"Failed to install lx-lsp. Error: ">> \o from_utf8_lossy(stderr)

install_spawn_msg(e) == <<"Failed to run go install: ">> \o debug_fmt(e)

----------------------------------------------------------------------------
(* LanguageServerInstallationStatus *)

StatusNone == [kind |-> "None", msg |-> <<>>]
CheckingForUpdate == [kind |-> "CheckingForUpdate", msg |-> <<>>]
Downloading == [kind |-> "Downloading", msg |-> <<>>]
Failed(m) == [kind |-> "Failed", msg |-> m]

----------------------------------------------------------------------------
(* The environment: what zed::Command::output, std::env::var and          *)
(* fs::metadata can return.                                                *)

NotRun == [kind |-> "NotRun", status |-> None, stdout |-> <<>>, stderr |-> <<>>, err |-> <<>>]
SpawnErr(e) == [kind |-> "Err", status |-> None, stdout |-> <<>>, stderr |-> <<>>, err |-> e]
Output(st, out, errb) == [kind |-> "Ok", status |-> st, stdout |-> out, stderr |-> errb, err |-> <<>>]

\* Output.status : Option<i32>
ExitStatuses == {Some(0), Some(1), None}

SpawnErrors == {<<"n">>}

\* The captured output is drawn from every byte string where the code reads
\* it (stdout of a PATH lookup that exited 0, stderr of a `go install` that
\* did not), and from samples where the code ignores it.
WhichResults ==
    {SpawnErr(e) : e \in SpawnErrors}
        \cup {Output(Some(0), out, <<>>) : out \in SeqsUpTo(OutBytes, MaxOut)}
        \cup {Output(st, out, <<>>) : st \in ExitStatuses \ {Some(0)}, out \in {<<>>, <<"a">>}}

GoVersionResults ==
    {SpawnErr(e) : e \in SpawnErrors} \cup {Output(st, <<>>, <<>>) : st \in ExitStatuses}

GoInstallResults ==
    {SpawnErr(e) : e \in SpawnErrors}
        \cup {Output(Some(0), <<>>, <<"e">>)}
        \cup {Output(st, <<>>, errb) : st \in ExitStatuses \ {Some(0)},
                                       errb \in SeqsUpTo(ErrBytes, MaxErr)}

\* std::env::var("HOME") : Result<String, VarError>
NotRead == [kind |-> "NotRead", val |-> <<>>]
HomeUnset == [kind |-> "Err", val |-> <<>>]
HomeIs(h) == [kind |-> "Ok", val |-> h]
HomeResults == {HomeUnset, HomeIs(<<"/", "h">>), HomeIs(<<>>)}

\* fs::metadata(&go_bin_path).is_ok()
MetaResults == {"Ok", "Err"}

NoIo ==
    [pre_which |-> NotRun, pre_home |-> NotRead, pre_meta |-> "NotChecked",
     go_version |-> NotRun, go_install |-> NotRun,
     post_which |-> NotRun, post_home |-> NotRead, post_meta |-> "NotChecked"]

----------------------------------------------------------------------------
(* Decisions of the code *)

IsCached_Never(cache) == FALSE

\* `if let Some(path) = &self.cached_binary_path`
IsCached(cache) == cache # None

find_in_path_NoEmptyCheck(r) ==
    IF r.kind = "Ok" /\ r.status = Some(0)
    THEN Some(which_path(r.stdout))
    ELSE None

\* find_existing_binary, PATH lookup: Some(path) when the lookup could be
\* spawned, exited 0 and its first trimmed line is not empty.
find_in_path(r) ==
    IF r.kind = "Ok" /\ r.status = Some(0) /\ which_path(r.stdout) # <<>>
    THEN Some(which_path(r.stdout))
    ELSE None

check_go_available_AnyExit(r) == r.kind = "Ok"

\* check_go_available
check_go_available(r) == r.kind = "Ok" /\ r.status = Some(0)

CacheAfterInstall_Always(cache, r) == Some(r.val)

CacheAfterInstall_Never(cache, r) == cache

\* `let binary_path = self.install_language_server(id)?;
\*  self.cached_binary_path = Some(binary_path.clone());`
CacheAfterInstall(cache, r) == IF r.ok THEN Some(r.val) ELSE cache

----------------------------------------------------------------------------
(* State machine *)

Init ==
    /\ cached_binary_path = None
    /\ pc = "idle"
    /\ result = None
    /\ emitted = <<>>
    /\ spawned = <<>>
    /\ io = NoIo
    /\ calls = 0
    /\ installs = 0
    /\ first_ok = None
    /\ entry_cache = None
    /\ prev_err = FALSE
    /\ queries = <<>>
    /\ command = None

\* The host calls language_server_command, which calls
\* language_server_binary_path (line 268); calls are sequential (&mut self).
Call ==
    /\ pc \in {"idle", "cmd_done"}
    /\ calls < MaxCalls
    /\ pc' = "entry"
    /\ calls' = calls + 1
    /\ first_ok' = IF first_ok = None /\ result # None /\ result[1].ok
                   THEN Some(result[1].val)
                   ELSE first_ok
    /\ entry_cache' = cached_binary_path
    /\ prev_err' = (result # None /\ ~result[1].ok)
    /\ result' = None
    /\ emitted' = <<>>
    /\ spawned' = <<>>
    /\ io' = NoIo
    /\ queries' = <<>>
    /\ command' = None
    /\ UNCHANGED <<cached_binary_path, installs>>

\* lines 209-213
CacheHit ==
    /\ pc = "entry"
    /\ IsCached(cached_binary_path)
    /\ result' = Some(Ok(cached_binary_path[1]))
    /\ pc' = "done"
    /\ UNCHANGED <<cached_binary_path, emitted, spawned, io, calls, installs, first_ok, entry_cache, prev_err, queries, command>>

\* lines 215-218
CacheMiss ==
    /\ pc = "entry"
    /\ ~IsCached(cached_binary_path)
    /\ emitted' = Append(emitted, CheckingForUpdate)
    /\ pc' = "find_which"
    /\ UNCHANGED <<cached_binary_path, result, spawned, io, calls, installs, first_ok, entry_cache, prev_err, queries, command>>

ReturnExisting_NoReturn(p) ==
    /\ cached_binary_path' = Some(p)
    /\ emitted' = Append(emitted, StatusNone)
    /\ result' = result
    /\ pc' = "check_go"

\* lines 221-231: find_existing_binary returned Some(p)
ReturnExisting(p) ==
    /\ cached_binary_path' = Some(p)
    /\ emitted' = Append(emitted, StatusNone)
    /\ result' = Some(Ok(p))
    /\ pc' = "done"

\* find_existing_binary, lines 164-182
FindWhich ==
    /\ pc = "find_which"
    /\ \E r \in WhichResults :
        /\ io' = [io EXCEPT !.pre_which = r]
        /\ spawned' = Append(spawned, "which")
        /\ IF find_in_path(r) # None
           THEN ReturnExisting(find_in_path(r)[1])
           ELSE /\ pc' = "find_home"
                /\ UNCHANGED <<cached_binary_path, emitted, result>>
    /\ UNCHANGED <<calls, installs, first_ok, entry_cache, prev_err, queries, command>>

\* find_existing_binary, line 185
FindHome ==
    /\ pc = "find_home"
    /\ \E h \in HomeResults :
        /\ io' = [io EXCEPT !.pre_home = h]
        /\ pc' = IF h.kind = "Ok" THEN "find_meta" ELSE "check_go"
    /\ UNCHANGED <<cached_binary_path, result, emitted, spawned, calls, installs, first_ok, entry_cache, prev_err, command>>
    /\ queries' = Append(queries, "env HOME")

FindMeta_Twice ==
    /\ pc = "find_meta"
    /\ \E m \in MetaResults :
        /\ io' = [io EXCEPT !.pre_meta = m]
        /\ IF m = "Ok"
           THEN ReturnExisting(go_bin_path(io.pre_home.val))
           ELSE /\ pc' = "check_go"
                /\ UNCHANGED <<cached_binary_path, emitted, result>>
    /\ UNCHANGED <<spawned, calls, installs, first_ok, entry_cache, prev_err, command>>
    /\ queries' = queries \o <<"metadata", "metadata">>

\* find_existing_binary, lines 186-195
FindMeta ==
    /\ pc = "find_meta"
    /\ \E m \in MetaResults :
        /\ io' = [io EXCEPT !.pre_meta = m]
        /\ IF m = "Ok"
           THEN ReturnExisting(go_bin_path(io.pre_home.val))
           ELSE /\ pc' = "check_go"
                /\ UNCHANGED <<cached_binary_path, emitted, result>>
    /\ UNCHANGED <<spawned, calls, installs, first_ok, entry_cache, prev_err, command>>
    /\ queries' = Append(queries, "metadata")

CheckGo_Twice ==
    /\ pc = "check_go"
    /\ \E r \in GoVersionResults :
        /\ io' = [io EXCEPT !.go_version = r]
        /\ spawned' = spawned \o <<"go version", "go version">>
        /\ IF check_go_available(r)
           THEN /\ pc' = "install"
                /\ UNCHANGED <<emitted, result>>
           ELSE /\ emitted' = Append(emitted, Failed(TOOLCHAIN_MISSING_MSG))
                /\ result' = Some(Err(TOOLCHAIN_MISSING_MSG))
                /\ pc' = "done"
    /\ UNCHANGED <<cached_binary_path, calls, installs, first_ok, entry_cache, prev_err, queries, command>>

\* lines 233-245
CheckGo ==
    /\ pc = "check_go"
    /\ \E r \in GoVersionResults :
        /\ io' = [io EXCEPT !.go_version = r]
        /\ spawned' = Append(spawned, "go version")
        /\ IF check_go_available(r)
           THEN /\ pc' = "install"
                /\ UNCHANGED <<emitted, result>>
           ELSE /\ emitted' = Append(emitted, Failed(TOOLCHAIN_MISSING_MSG))
                /\ result' = Some(Err(TOOLCHAIN_MISSING_MSG))
                /\ pc' = "done"
    /\ UNCHANGED <<cached_binary_path, calls, installs, first_ok, entry_cache, prev_err, queries, command>>

ReturnFromInstall_MapErr(r) ==
    /\ cached_binary_path' = CacheAfterInstall(cached_binary_path, r)
    /\ result' = Some(IF r.ok THEN r ELSE Err(<<"Failed to install language server">>))
    /\ pc' = "done"

\* lines 248-254: install_language_server returned r
ReturnFromInstall(r) ==
    /\ cached_binary_path' = CacheAfterInstall(cached_binary_path, r)
    /\ result' = Some(r)
    /\ pc' = "done"

\* install_language_server, lines 46-92
GoInstall ==
    /\ pc = "install"
    /\ \E r \in GoInstallResults :
        /\ io' = [io EXCEPT !.go_install = r]
        /\ spawned' = Append(spawned, "go install")
        /\ installs' = installs + 1
        /\ IF r.kind = "Ok"
           THEN IF r.status # Some(0)
                THEN /\ emitted' = emitted \o <<Downloading, Failed(install_failed_msg(r.stderr))>>
                     /\ ReturnFromInstall(Err(install_failed_msg(r.stderr)))
                ELSE /\ emitted' = Append(emitted, Downloading)
                     /\ pc' = "locate_which"
                     /\ UNCHANGED <<cached_binary_path, result>>
           ELSE /\ emitted' = emitted \o <<Downloading, Failed(install_spawn_msg(r.err))>>
                /\ ReturnFromInstall(Err(install_spawn_msg(r.err)))
    /\ UNCHANGED <<calls, first_ok, entry_cache, prev_err, queries, command>>

\* install_language_server, lines 141-151: the binary was located at p
InstallLocated(p) ==
    /\ emitted' = Append(emitted, StatusNone)
    /\ ReturnFromInstall(Ok(p))

\* install_language_server, lines 116, 133, 136
InstallNotLocated ==
    /\ emitted' = emitted
    /\ ReturnFromInstall(Err(NOT_LOCATED_MSG))

\* install_language_server, lines 102-120
LocateWhich ==
    /\ pc = "locate_which"
    /\ \E r \in WhichResults :
        /\ io' = [io EXCEPT !.post_which = r]
        /\ spawned' = Append(spawned, "which")
        /\ IF r.kind = "Ok" /\ r.status = Some(0)
           THEN IF which_path(r.stdout) = <<>>
                THEN InstallNotLocated
                ELSE InstallLocated(which_path(r.stdout))
           ELSE /\ pc' = "locate_home"
                /\ UNCHANGED <<cached_binary_path, emitted, result>>
    /\ UNCHANGED <<calls, installs, first_ok, entry_cache, prev_err, queries, command>>

\* install_language_server, lines 121-123 and 135-137
LocateHome ==
    /\ pc = "locate_home"
    /\ \E h \in HomeResults :
        /\ io' = [io EXCEPT !.post_home = h]
        /\ IF h.kind = "Ok"
           THEN /\ pc' = "locate_meta"
                /\ UNCHANGED <<cached_binary_path, emitted, result>>
           ELSE InstallNotLocated
    /\ UNCHANGED <<spawned, calls, installs, first_ok, entry_cache, prev_err, command>>
    /\ queries' = Append(queries, "env HOME")

\* install_language_server, lines 124-134
LocateMeta ==
    /\ pc = "locate_meta"
    /\ \E m \in MetaResults :
        /\ io' = [io EXCEPT !.post_meta = m]
        /\ IF m = "Ok"
           THEN InstallLocated(go_bin_path(io.post_home.val))
           ELSE InstallNotLocated
    /\ UNCHANGED <<spawned, calls, installs, first_ok, entry_cache, prev_err, command>>
    /\ queries' = Append(queries, "metadata")

\* zed::Command { command: binary_path, args: vec![], env: Default::default() }
Command(path) == [command |-> path, args |-> <<>>, env |-> <<>>]

language_server_command_AlwaysOk(r) == Ok(Command(r.val))

\* language_server_command, lines 268-276, applied to what
\* language_server_binary_path returned
language_server_command(r) == IF r.ok THEN Ok(Command(r.val)) ELSE Err(r.val)

\* language_server_command returns
LanguageServerCommand ==
    /\ pc = "done"
    /\ command' = Some(language_server_command(result[1]))
    /\ pc' = "cmd_done"
    /\ UNCHANGED <<cached_binary_path, result, emitted, spawned, io, calls, installs,
                   first_ok, entry_cache, prev_err, queries>>

Next ==
    \/ Call
    \/ CacheHit
    \/ CacheMiss
    \/ FindWhich
    \/ FindHome
    \/ FindMeta
    \/ CheckGo
    \/ GoInstall
    \/ LocateWhich
    \/ LocateHome
    \/ LocateMeta
    \/ LanguageServerCommand

Spec == Init /\ [][Next]_vars

\* The steps of a call in progress.  Every external call blocks until it
\* returns, and the code then runs on: a step that is enabled stays enabled
\* until it is taken.
Step ==
    \/ CacheHit
    \/ CacheMiss
    \/ FindWhich
    \/ FindHome
    \/ FindMeta
    \/ CheckGo
    \/ GoInstall
    \/ LocateWhich
    \/ LocateHome
    \/ LocateMeta
    \/ LanguageServerCommand

\* Spec under the assumption that every external call returns.
FairSpec == Spec /\ WF_vars(Step)

TypeOK ==
    /\ pc \in {"idle", "entry", "find_which", "find_home", "find_meta", "check_go",
               "install", "locate_which", "locate_home", "locate_meta", "done", "cmd_done"}
    /\ calls \in 0..MaxCalls
    /\ Len(cached_binary_path) <= 1
    /\ Len(result) <= 1

----------------------------------------------------------------------------
(* Vocabulary of the properties *)

\* language_server_binary_path has returned
Returned == pc \in {"done", "cmd_done"}
ReturnedOk == Returned /\ result[1].ok
ReturnedErr == Returned /\ ~result[1].ok

Count(log, x) == Cardinality({i \in DOMAIN log : log[i] = x})

Ran(r) == r.kind # "NotRun"
\* the subprocess could not be spawned, or did not exit with code 0
FailedToRun(r) == r.kind = "Err" \/ (r.kind = "Ok" /\ r.status # Some(0))
ExitedZero(r) == r.kind = "Ok" /\ r.status = Some(0)

----------------------------------------------------------------------------
(* C1: cache idempotence.  Every call made after a call that returned     *)
(* Ok(p) returns Ok(p), spawns no subprocess and queries neither the       *)
(* environment nor the filesystem.                                         *)
C1_CacheIdempotence ==
    first_ok # None =>
        /\ spawned = <<>>
        /\ io = NoIo
        /\ Returned => result = Some(Ok(first_ok[1]))

C1_Witness == Returned /\ first_ok # None /\ calls >= 2

(* C2: every call that returns Err has Failed as the last status it       *)
(* emitted.                                                                *)
C2_FailureEmitsFailed ==
    ReturnedErr => emitted # <<>> /\ Last(emitted).kind = "Failed"

(* C3: over the lifetime of the instance `go install` is spawned at most  *)
(* once.                                                                   *)
C3_AtMostOneInstallEver == installs <= 1

(* C3, amended: one call spawns `go install` at most once, a call that    *)
(* starts with the cache set never spawns it, and so the lifetime total    *)
(* never exceeds the number of calls that started with an empty cache.     *)
C3_InstallGatedByCache ==
    /\ Count(spawned, "go install") <= 1
    /\ entry_cache # None => Count(spawned, "go install") = 0
    /\ first_ok # None => Count(spawned, "go install") = 0
    /\ installs <= calls

C3_Witness == Returned /\ installs = 2 /\ calls = 2 /\ Count(spawned, "go install") = 1

(* "The first line of the trimmed text", stated on positions of the text: *)
(* it starts at the first character that is not whitespace and ends before *)
(* the first line terminator ("\n" or "\r\n") that precedes the last       *)
(* character that is not whitespace, or at that last character.            *)
Min(S) == CHOOSE k \in S : \A j \in S : k <= j
Max(S) == CHOOSE k \in S : \A j \in S : k >= j

NonWhitespace(s) == {k \in DOMAIN s : ~IsWhitespace(s[k])}

FirstTrimmedLine(s) ==
    LET lo == Min(NonWhitespace(s))
        hi == Max(NonWhitespace(s))
        nl == {k \in lo..hi : s[k] = "\n"}
        end == IF nl = {} THEN hi
               ELSE IF s[Min(nl) - 1] = "\r" THEN Min(nl) - 2 ELSE Min(nl) - 1
    IN  SubSeq(s, lo, end)

\* the paths a PATH lookup that returned r names: at most one
PathLines(r) ==
    IF ExitedZero(r) /\ NonWhitespace(from_utf8_lossy(r.stdout)) # {}
    THEN {FirstTrimmedLine(from_utf8_lossy(r.stdout))}
    ELSE {}

(* C4: the probe after a successful install falls back like the one       *)
(* before it: when its PATH lookup fails or exits 0 without naming a path, *)
(* HOME is read, the fallback file is checked when HOME is set, and an     *)
(* existing fallback file is returned as Ok.                               *)
C4_PostInstallProbeFallsBack ==
    (Returned /\ Ran(io.post_which) /\ PathLines(io.post_which) = {}) =>
        /\ io.post_home # NotRead
        /\ io.post_home.kind = "Ok" => io.post_meta # "NotChecked"
        /\ io.post_meta = "Ok" => result = Some(Ok(go_bin_path(io.post_home.val)))

(* C5: when `go version` cannot be spawned or does not exit 0, the call   *)
(* returns the toolchain-missing error, has not spawned `go install`, has  *)
(* not emitted Downloading, and Failed(toolchain-missing) is its last      *)
(* status.                                                                 *)
C5_NoToolchainNoInstall ==
    (Ran(io.go_version) /\ FailedToRun(io.go_version)) =>
        /\ Returned
        /\ result = Some(Err(TOOLCHAIN_MISSING_MSG))
        /\ Count(spawned, "go install") = 0
        /\ Count(emitted, Downloading) = 0
        /\ Last(emitted) = Failed(TOOLCHAIN_MISSING_MSG)
        /\ io.go_install = NotRun

C5_Witness ==
    Returned /\ io.go_version.kind = "Ok" /\ io.go_version.status = Some(1)

(* C6: a call that returns Err leaves the cache empty, and the call after *)
(* it starts over: it emits CheckingForUpdate first and spawns the PATH    *)
(* lookup again.                                                           *)
C6_FailureDoesNotPoisonCache ==
    /\ ReturnedErr => cached_binary_path = None
    /\ prev_err => entry_cache = None
    /\ (prev_err /\ pc \notin {"entry"}) => emitted # <<>> /\ emitted[1] = CheckingForUpdate
    /\ (prev_err /\ Returned) => Ran(io.pre_which) /\ spawned[1] = "which"

C6_Witness == ReturnedOk /\ prev_err /\ Count(spawned, "go install") = 1

(* C7: a call that started with an empty cache and returns Ok(p) leaves   *)
(* the cache equal to Some(p) and NoStatus as the last status emitted.     *)
C7_SuccessCachesAndClearsStatus ==
    (ReturnedOk /\ entry_cache = None) =>
        /\ cached_binary_path = Some(result[1].val)
        /\ emitted # <<>>
        /\ Last(emitted) = StatusNone

C7_Witness ==
    ReturnedOk /\ entry_cache = None /\ Count(spawned, "go install") = 1
        /\ io.post_meta = "Ok"

(* C8: one call spawns at most three subprocesses.                        *)
C8_AtMostThreeSpawns == Len(spawned) <= 3

(* C8, amended: one call spawns at most four subprocesses, and they are a *)
(* prefix of: PATH lookup, `go version`, `go install`, PATH lookup.        *)
C8_AtMostFourSpawns ==
    /\ Len(spawned) <= 4
    /\ spawned = SubSeq(<<"which", "go version", "go install", "which">>, 1, Len(spawned))

C8_Witness == Returned /\ Len(spawned) = 4

(* C9: a PATH lookup that exits 0 and names a path wins: the call returns *)
(* the first line of its trimmed output, and neither HOME nor the fallback *)
(* file is consulted by that probe, before and after install alike.        *)
C9_PathLookupWins ==
    Returned =>
        /\ \A p \in PathLines(io.pre_which) :
              /\ result = Some(Ok(p))
              /\ io.pre_home = NotRead /\ io.pre_meta = "NotChecked"
        /\ \A p \in PathLines(io.post_which) :
              /\ result = Some(Ok(p))
              /\ io.post_home = NotRead /\ io.post_meta = "NotChecked"

C9_Witness ==
    /\ Returned
    /\ io.pre_which = Output(Some(0), <<"a", "\n", "xFF">>, <<>>)
    /\ result = Some(Ok(<<"a">>))

(* C10: when the probe before install finds the binary, by PATH lookup or *)
(* by the fallback file, the call returns that path and has spawned        *)
(* nothing but the PATH lookup.                                            *)
C10_FoundMeansNoToolchainCall ==
    /\ (Ran(io.pre_which) /\ PathLines(io.pre_which) # {}) =>
          /\ Returned
          /\ result \in {Some(Ok(p)) : p \in PathLines(io.pre_which)}
          /\ spawned = <<"which">>
    /\ io.pre_meta = "Ok" =>
          /\ Returned
          /\ result = Some(Ok(go_bin_path(io.pre_home.val)))
          /\ spawned = <<"which">>

C10_Witness ==
    Returned /\ io.pre_meta = "Ok" /\ FailedToRun(io.pre_which)
        /\ result = Some(Ok(<<"/", "h", "/go/bin/", "lx-lsp">>))

\* t occurs in msg as a contiguous run of pieces
Contains(msg, t) ==
    \E i \in 0..(Len(msg) - Len(t)) : SubSeq(msg, i + 1, i + Len(t)) = t

\* the text of captured bytes: each byte that is not valid UTF-8 reads U+FFFD
TextOf(bytes) == [i \in DOMAIN bytes |-> IF bytes[i] = "xFF" THEN "uFFFD" ELSE bytes[i]]

InstallExitedNonZero == io.go_install.kind = "Ok" /\ io.go_install.status # Some(0)

(* C11: when `go install` runs and does not exit 0, the call returns Err, *)
(* its last status is Failed, and both the error and the status message    *)
(* contain the text of the captured stderr (the bytes themselves when they *)
(* are valid UTF-8).                                                       *)
C11_InstallFailureCarriesStderr ==
    InstallExitedNonZero =>
        /\ ReturnedErr
        /\ Last(emitted).kind = "Failed"
        /\ Contains(result[1].val, TextOf(io.go_install.stderr))
        /\ Contains(Last(emitted).msg, TextOf(io.go_install.stderr))
        /\ (\A i \in DOMAIN io.go_install.stderr : io.go_install.stderr[i] # "xFF") =>
              /\ Contains(result[1].val, io.go_install.stderr)
              /\ Contains(Last(emitted).msg, io.go_install.stderr)

C11_Witness ==
    /\ ReturnedErr
    /\ io.go_install = Output(Some(1), <<>>, <<"e">>)
    /\ result[1].val = <<"Failed to install lx-lsp. Error: ", "e">>

(* C12: the cache is empty at construction; a step that sets it is the    *)
(* return of the first successful call and stores the returned path; once  *)
(* set, no step clears or changes it.                                      *)
C12_CacheLifecycle ==
    /\ cached_binary_path = None
    /\ [][/\ cached_binary_path # None => cached_binary_path' = cached_binary_path
          /\ (cached_binary_path = None /\ cached_binary_path' # None) =>
                /\ first_ok = None
                /\ result' = Some(Ok(cached_binary_path'[1]))]_vars

C12_Witness ==
    /\ Returned
    /\ calls = 2
    /\ entry_cache # None
    /\ cached_binary_path = entry_cache

\* the PATH lookup exited 0 and wrote nothing but whitespace
ExitedZeroEmpty(r) == ExitedZero(r) /\ NonWhitespace(TextOf(r.stdout)) = {}

(* C13: a PATH lookup that exits 0 with only whitespace on stdout names   *)
(* no path: before install the probe goes on to the fallback, after        *)
(* install the call does not return a path taken from that output; no call *)
(* returns Ok with an empty path and the cache never holds an empty path.  *)
C13_EmptyOutputIsNotFound ==
    /\ ReturnedOk => result[1].val # <<>>
    /\ cached_binary_path # None => cached_binary_path[1] # <<>>
    /\ ExitedZeroEmpty(io.pre_which) => (pc = "find_home" \/ io.pre_home # NotRead)
    /\ ExitedZeroEmpty(io.post_which) =>
          /\ Returned
          /\ \/ ~result[1].ok
             \/ io.post_meta = "Ok" /\ result[1].val = io.post_home.val \o <<"/go/bin/", "lx-lsp">>

C13_Witness ==
    /\ ReturnedErr
    /\ io.pre_which = Output(Some(0), <<"\r", "\n">>, <<>>)
    /\ io.post_which = Output(Some(0), <<"\r">>, <<>>)

(* C14: language_server_command returns Ok exactly when                   *)
(* language_server_binary_path returned Ok(p), with command p, no          *)
(* arguments and an empty environment; on Err(e) it returns Err(e); and it *)
(* returns in the step after language_server_binary_path does, with no     *)
(* further subprocess, query, status or cache write.                       *)
C14_CommandWrapsResolution ==
    /\ [](pc = "cmd_done" =>
            /\ command # None
            /\ command[1].ok = result[1].ok
            /\ result[1].ok =>
                  command[1].val = [command |-> result[1].val, args |-> <<>>, env |-> <<>>]
            /\ ~result[1].ok => command[1].val = result[1].val)
    /\ [](pc # "cmd_done" => command = None)
    /\ [][pc = "done" =>
            /\ pc' = "cmd_done"
            /\ UNCHANGED <<result, spawned, queries, emitted, io, cached_binary_path, calls>>]_vars

C14_Witness ==
    /\ pc = "cmd_done"
    /\ command = Some(Ok([command |-> <<"a">>, args |-> <<>>, env |-> <<>>]))
    /\ Count(spawned, "go install") = 1

(* C15: one call checks the filesystem at most once and reads HOME at     *)
(* most once.                                                              *)
C15_AtMostOneQueryEach ==
    Count(queries, "env HOME") <= 1 /\ Count(queries, "metadata") <= 1

(* C15, amended: each probe of a call reads HOME at most once and checks  *)
(* the filesystem at most once, only after it has read HOME; a call runs   *)
(* the probe before install and, when install exits 0, once more, so it    *)
(* reads HOME at most twice and checks the filesystem at most twice.       *)
C15_AtMostOneQueryEachPerProbe ==
    /\ Count(queries, "env HOME") <= 2
    /\ Count(queries, "metadata") <= 2
    /\ Count(spawned, "go install") = 0 =>
          Count(queries, "env HOME") <= 1 /\ Count(queries, "metadata") <= 1
    /\ \A i \in DOMAIN queries :
          queries[i] = "metadata" => (i > 1 /\ queries[i - 1] = "env HOME")

C15_Witness ==
    Returned /\ queries = <<"env HOME", "metadata", "env HOME", "metadata">>

(* C16: the statuses one call emits are CheckingForUpdate first, then     *)
(* Downloading only when `go version` exited 0 and `go install` is         *)
(* spawned, then at most one None or Failed, after which nothing; no       *)
(* status is emitted twice, at most three are emitted, and a call that     *)
(* starts with the cache set emits none.                                   *)
C16_StatusesAreOneWay ==
    /\ entry_cache # None => emitted = <<>>
    /\ (entry_cache = None /\ pc \notin {"idle", "entry"}) => emitted # <<>>
    /\ Len(emitted) <= 3
    /\ emitted # <<>> => emitted[1] = CheckingForUpdate
    /\ \A i, j \in DOMAIN emitted : i # j => emitted[i].kind # emitted[j].kind
    /\ \A i \in DOMAIN emitted :
          /\ emitted[i].kind \in {"None", "Failed"} => i = Len(emitted)
          /\ emitted[i] = Downloading =>
                /\ i = 2
                /\ ExitedZero(io.go_version)
                /\ Count(spawned, "go install") = 1
    /\ Count(spawned, "go install") = Count(emitted, Downloading)

C16_Witness ==
    /\ Returned
    /\ emitted = <<CheckingForUpdate, Downloading, StatusNone>>

(* C17: when every external call returns, every call that has started    *)
(* returns Ok or Err; within one call `go version` and `go install` are    *)
(* each spawned at most once, and an Err is returned by the step that      *)
(* meets the failure: a failed `go version` or `go install` is the last    *)
(* subprocess of the call.                                                 *)
C17_EveryCallReturns ==
    /\ (pc = "entry") ~> (pc = "cmd_done" /\ result # None /\ command # None)
    /\ [](/\ Count(spawned, "go version") <= 1
          /\ Count(spawned, "go install") <= 1
          /\ (Ran(io.go_version) /\ FailedToRun(io.go_version)) =>
                ReturnedErr /\ Last(spawned) = "go version"
          /\ (Ran(io.go_install) /\ FailedToRun(io.go_install)) =>
                ReturnedErr /\ Last(spawned) = "go install")

C17_Witness ==
    /\ pc = "cmd_done"
    /\ calls = 2
    /\ prev_err
    /\ ~result[1].ok
    /\ spawned = <<"which", "go version", "go install">>

(* C19: a call that emits Failed(m) returns Err(m) in that step, emits    *)
(* nothing after it and leaves the cache unset.                            *)
C19_FailedMeansErr ==
    \A i \in DOMAIN emitted :
        emitted[i].kind = "Failed" =>
            /\ Returned
            /\ result = Some([ok |-> FALSE, val |-> emitted[i].msg])
            /\ i = Len(emitted)
            /\ cached_binary_path = None

C19_Witness ==
    /\ Returned
    /\ emitted = <<CheckingForUpdate, Downloading, Failed(<<"Failed to run go install: ", "\"", "n", "\"">>)>>
    /\ result = Some(Err(<<"Failed to run go install: ", "\"", "n", "\"">>))

\* the paths the environment vouched for in the current call: the first
\* trimmed line of a PATH lookup that exited 0, and $HOME/go/bin/lx-lsp when
\* HOME was set and the metadata query on it succeeded
FallbackPath(h) == h \o <<"/go/bin/", "lx-lsp">>

VouchedPaths ==
    PathLines(io.pre_which) \cup PathLines(io.post_which)
        \cup (IF io.pre_home.kind = "Ok" /\ io.pre_meta = "Ok"
              THEN {FallbackPath(io.pre_home.val)} ELSE {})
        \cup (IF io.post_home.kind = "Ok" /\ io.post_meta = "Ok"
              THEN {FallbackPath(io.post_home.val)} ELSE {})

(* C20: a path returned as Ok by a call that started with an empty cache, *)
(* and a path stored in the cache by the current call, is the first        *)
(* trimmed line of a PATH lookup that exited 0 or $HOME/go/bin/lx-lsp      *)
(* after a successful metadata query with HOME set; a call that started    *)
(* with the cache set returns the cached path.  When HOME is unset the     *)
(* metadata query is skipped: the probe before install goes on to          *)
(* `go version`, the probe after install reports not found.                *)
C20_PathProvenance ==
    /\ (ReturnedOk /\ entry_cache = None) => result[1].val \in VouchedPaths
    /\ (ReturnedOk /\ entry_cache # None) => result[1].val = entry_cache[1]
    /\ cached_binary_path # None =>
          (cached_binary_path = entry_cache \/ cached_binary_path[1] \in VouchedPaths)
    /\ io.pre_home = HomeUnset =>
          /\ io.pre_meta = "NotChecked"
          /\ pc = "check_go" \/ Ran(io.go_version)
    /\ io.post_home = HomeUnset =>
          /\ io.post_meta = "NotChecked"
          /\ Returned
          /\ result = Some(Err(NOT_LOCATED_MSG))

C20_Witness ==
    /\ ReturnedOk
    /\ io.pre_home = HomeUnset
    /\ io.post_which.kind = "Err"
    /\ result[1].val = <<"/", "h", "/go/bin/", "lx-lsp">>
    /\ cached_binary_path = Some(<<"/", "h", "/go/bin/", "lx-lsp">>)

====
